---------------------------- MODULE Spec2Model ----------------------------
(***************************************************************************)
(* LLM-Scheduler: the task-scheduling engine.                              *)
(*                                                                         *)
(*   queue.Manager        backend/queue/manager.go                         *)
(*   worker.Worker        backend/worker/worker.go                         *)
(*   services.TaskService backend/services/task_service.go                 *)
(*                                                                         *)
(* The key-value store holds three lists (the priority lanes) and two      *)
(* sorted sets (processing, delayed); the relational store holds the task  *)
(* and model rows.  Every call on either store is one atomic step; a       *)
(* handler is the sequence of its store calls, so that handlers of         *)
(* different goroutines interleave between their store calls.              *)
(***************************************************************************)
EXTENDS Integers, Sequences, FiniteSets, TLC

(* ------------------------------ bounds -------------------------------- *)
MaxTasks == 1
MaxTime == 2
MaxFaults == 1
MaxRetryCalls == 1
MaxQTasks == 3
MaxPTasks == 3
MaxCTasks == 2
MaxSTasks == 1
MaxSRetryCalls == 1
MaxRTasks == 1
MaxRRetryCalls == 4
MaxRestarts == 1
MaxNTasks == 2
MaxDTasks == 2
MaxZTasks == 2
MaxSweeps == 2
MaxGTasks == 1
MaxLTasks == 2

(* ------------------------- program constants -------------------------- *)
\* queue.task_timeout and queue.retry_delay are durations of the
\* configuration; the clock of the model counts in units of them.
TaskPriorityLow == 1
TaskPriorityMedium == 2
TaskPriorityHigh == 3
DefaultMaxRetries == 3
TaskTimeout == 1
RetryDelay == 1
SeedMaxWorkers == 2
MaxQueueSize == 2

Models == {1, 2}
Tasks == 1..3
Terminal == {"completed", "failed", "cancelled"}

NoRow == [exists |-> FALSE]
NoItem == [task_id |-> 0]

VARIABLES
    task,        \* tasks table: id -> row (NoRow when the id is not in the table)
    model,       \* models table: id -> row
    lanes,       \* the three lists, by key 3 (high), 2 (medium), 1 (low); head first
    processing,  \* sorted set: member -> score
    delayed,     \* sorted set: member -> score
    now,         \* time.Now().Unix()
    worker,      \* per worker goroutine: its model, position and locals
    client,      \* per request goroutine: position and locals of the service call
    reaper,      \* position and locals of CleanupStuckTasks
    promoter,    \* position and locals of ProcessDelayedTasks
    nextId,      \* tasks.id AUTO_INCREMENT: the id of the next row
    faults,      \* store errors injected so far
    hist,        \* history: what has happened (read by the properties only)
    conf,        \* the configuration of the run, fixed by the initial state
    pool         \* the worker pool manager: position, context, registry

vars == <<task, model, lanes, processing, delayed, now, worker, client,
          reaper, promoter, nextId, faults, hist, conf, pool>>

(* ---------------------- the key-value store calls --------------------- *)
\* A push at the tail, where BRPOP takes from.
LPushAtTail(q, x) == Append(q, x)

\* LPUSH: insert at the head of the list.
LPush(q, x) == <<x>> \o q

\* BRPOP: the value at the tail of the list.
RPopValue(q) == q[Len(q)]

\* A read of the tail that leaves it in the list.
RPopKept(q) == q

\* BRPOP: the list without its tail.
RPopRest(q) == SubSeq(q, 1, Len(q) - 1)

\* ZADD: a member is held once; adding it again replaces its score.
ZAdd(z, m, score) == [x \in (DOMAIN z) \cup {m} |-> IF x = m THEN score ELSE z[x]]

\* A ZREM that removes nothing.
ZRemKept(z, m) == z

\* ZREM
ZRem(z, m) == [x \in (DOMAIN z) \ {m} |-> z[x]]

\* A range reply that ignores the scores.
ZRangeAll(z, max) == DOMAIN z

\* ZRANGEBYSCORE 0 max: the members with score <= max.
ZRangeByScore(z, max) == {x \in DOMAIN z : z[x] <= max}

EmptyZ == [x \in {} |-> 0]

(* ------------------------------ queue --------------------------------- *)
\* getQueueKey: the lane of a priority; an unknown priority goes to medium.
getQueueKey(priority) ==
    IF priority = TaskPriorityHigh THEN 3
    ELSE IF priority = TaskPriorityMedium THEN 2
    ELSE IF priority = TaskPriorityLow THEN 1
    ELSE 2

\* The scan starting at the low lane.
queuesLowFirst == <<1, 2, 3>>

\* DequeueTask scans the lanes in this order.
queues == <<3, 2, 1>>

\* All entries of a task in a list / in a sorted set.
LaneCount(q, id) == Cardinality({i \in 1..Len(q) : q[i].task_id = id})
ZCount(z, id) == Cardinality({x \in DOMAIN z : x.task_id = id})
InLanes(id) == LaneCount(lanes[3], id) + LaneCount(lanes[2], id) + LaneCount(lanes[1], id)

(* ------------------------------ initial ------------------------------- *)
ModelRow ==
    [exists |-> TRUE, status |-> "online", total_requests |-> 0, success_requests |-> 0,
     max_workers |-> SeedMaxWorkers, current_workers |-> 0]

IdleWorker(m) ==
    [model |-> m, pc |-> "BRPop", qi |-> 1, item |-> NoItem, res |-> "none",
     unsaved |-> FALSE]
IdleClient ==
    [pc |-> "idle", id |-> 0, model_id |-> 0, status |-> "none", retry_count |-> 0,
     priority |-> 0]
IdleSweep == [pc |-> "idle", results |-> <<>>]

\* The goroutines of model m that are running.
WorkersOf(m) ==
    Cardinality({w \in DOMAIN worker : worker[w].model = m /\ worker[w].pc # "none"})

\* The pool manager waiting for its context to end: every running worker is
\* in the registry and counted in its model's current_workers.
RunningPool ==
    [pc |-> "running", cancelled |-> FALSE, workers |-> DOMAIN worker, todo |-> <<>>,
     restarts |-> 0]

InitStores ==
    /\ task = [t \in Tasks |-> NoRow]
    /\ model = [m \in Models |->
                    IF m \in conf.models
                    THEN [ModelRow EXCEPT !.current_workers = WorkersOf(m)]
                    ELSE NoRow]
    /\ lanes = [k \in {1, 2, 3} |-> <<>>]
    /\ processing = EmptyZ
    /\ delayed = EmptyZ
    /\ now = 0
    /\ reaper = IdleSweep
    /\ promoter = IdleSweep
    /\ nextId = 1
    /\ faults = 0

NoHist ==
    [enq |-> <<>>, deq |-> <<>>, run |-> <<>>, done |-> <<>>, reaped |-> {},
     cancelOk |-> {}, retries |-> 0, sweeps |-> 0,
     owner |-> [t \in Tasks |-> "none"]]

\* One model, one worker bound to it, one request goroutine.
Init ==
    /\ worker = [w \in {"w1"} |-> IdleWorker(1)]
    /\ client = [c \in {"c1"} |-> IdleClient]
    /\ pool = RunningPool
    /\ conf = [cascade |-> TRUE, sweeps |-> 0, models |-> Models, tasks |-> MaxTasks, retries |-> MaxRetryCalls, log |-> FALSE]
    /\ InitStores
    /\ hist = NoHist


(* ------------------------------ history ------------------------------- *)
\* The logs are kept only in the runs whose configuration asks for them.
LogEnq(item) == IF conf.log THEN [hist EXCEPT !.enq = Append(@, item)] ELSE hist
LogDeq(w, item) ==
    IF conf.log
    THEN [hist EXCEPT !.deq = Append(@, item), !.owner[item.task_id] = w]
    ELSE hist
LogDone(id) == IF conf.log THEN [hist EXCEPT !.done = Append(@, id)] ELSE hist
LogRun(id) == IF conf.log THEN [hist EXCEPT !.run = Append(@, id)] ELSE hist
LogSweep == IF hist.sweeps < conf.sweeps THEN [hist EXCEPT !.sweeps = @ + 1] ELSE hist
LogReaped(id) == IF conf.log THEN [hist EXCEPT !.reaped = @ \cup {id}] ELSE hist

(* --------------------------- task store writes ------------------------ *)
\* UPDATE tasks SET ... WHERE id = ?: a row that is not there is not written.
UpdateRow(id, new) == IF task[id].exists THEN [task EXCEPT ![id] = new] ELSE task

\* A start that counts as a retry.
StartTaskRowCounting(row) ==
    [row EXCEPT !.status = "running", !.started_at = TRUE, !.retry_count = @ + 1]

\* TaskService.StartTask: status and started_at, whatever the status was.
StartTaskRow(row) == [row EXCEPT !.status = "running", !.started_at = TRUE]

\* TaskService.CompleteTask: status, output and completed_at.
CompleteTaskRow(row) ==
    [row EXCEPT !.status = "completed", !.output = TRUE, !.completed_at = TRUE]

\* TaskService.FailTask: status, error_message and completed_at.
FailTaskRow(row) ==
    [row EXCEPT !.status = "failed", !.error_message = TRUE, !.completed_at = TRUE]

\* ModelService.IncrementRequestCount: one UPDATE of both counters.
IncrementRequestCount(id, success) ==
    IF model[id].exists
    THEN [model EXCEPT ![id].total_requests = @ + 1,
                       ![id].success_requests = IF success THEN @ + 1 ELSE @]
    ELSE model

\* Manager.CompleteTask (the ack): ZRANGE returns the members in score order
\* (equal scores in member order); the first one with the task id is removed.
Rank(z, x) == z[x] * 10000 + x.task_id * 1000 + x.model_id * 100 + x.priority * 10
              + x.created_at

Ack(id) ==
    IF ZCount(processing, id) = 0 THEN processing
    ELSE ZRem(processing,
              CHOOSE x \in DOMAIN processing :
                  /\ x.task_id = id
                  /\ \A y \in DOMAIN processing :
                        y.task_id = id => Rank(processing, x) <= Rank(processing, y))

(* ------------------------------ worker -------------------------------- *)
\* Worker.processNextTask returns to Worker.Start's loop.
Return(w) ==
    [worker[w] EXCEPT !.pc = "BRPop", !.qi = 1, !.item = NoItem, !.res = "none",
                      !.unsaved = FALSE]

\* A `continue` that tries the same lane again.
ContinueSameLane(w) == [worker[w] EXCEPT !.pc = "BRPop", !.item = NoItem]

\* DequeueTask, `continue`: the next lane, or nil after the last one.
Continue(w) ==
    IF worker[w].qi < 3
    THEN [worker[w] EXCEPT !.pc = "BRPop", !.qi = @ + 1, !.item = NoItem]
    ELSE Return(w)

\* DequeueTask: BRPOP on the current lane (redis.Nil when it stays empty).
BRPopEmpty(w) ==
    /\ worker[w].pc = "BRPop"
    /\ lanes[queues[worker[w].qi]] = <<>>
    /\ worker' = [worker EXCEPT ![w] = Continue(w)]
    /\ UNCHANGED <<task, model, lanes, processing, delayed, now, client, reaper,
                   promoter, nextId, faults, hist, conf, pool>>

BRPopItem(w) ==
    /\ worker[w].pc = "BRPop"
    /\ LET k == queues[worker[w].qi]
       IN /\ lanes[k] # <<>>
          /\ lanes' = [lanes EXCEPT ![k] = RPopRest(@)]
          /\ worker' = [worker EXCEPT
                ![w].item = RPopValue(lanes[k]),
                ![w].pc = IF RPopValue(lanes[k]).model_id # worker[w].model
                          THEN "Requeue" ELSE "moveToProcessing"]
    /\ UNCHANGED <<task, model, processing, delayed, now, client, reaper,
                   promoter, nextId, faults, hist, conf, pool>>

\* DequeueTask: an entry of another model is pushed back with LPUSH.
Requeue(w) ==
    /\ worker[w].pc = "Requeue"
    /\ lanes' = [lanes EXCEPT ![queues[worker[w].qi]] = LPush(@, worker[w].item)]
    /\ worker' = [worker EXCEPT ![w] = Continue(w)]
    /\ UNCHANGED <<task, model, processing, delayed, now, client, reaper,
                   promoter, nextId, faults, hist, conf, pool>>

\* The LPUSH fails: the error is logged and the scan goes on.
RequeueError(w) ==
    /\ worker[w].pc = "Requeue"
    /\ faults < MaxFaults
    /\ faults' = faults + 1
    /\ worker' = [worker EXCEPT ![w] = Continue(w)]
    /\ UNCHANGED <<task, model, lanes, processing, delayed, now, client, reaper,
                   promoter, nextId, hist, conf, pool>>

\* moveToProcessing: ZADD with score time.Now().Unix(); DequeueTask returns the item.
moveToProcessing(w) ==
    /\ worker[w].pc = "moveToProcessing"
    /\ processing' = ZAdd(processing, worker[w].item, now)
    /\ worker' = [worker EXCEPT ![w].pc = "GetTask"]
    /\ hist' = LogDeq(w, worker[w].item)
    /\ UNCHANGED <<task, model, lanes, delayed, now, client, reaper, promoter, nextId, faults, conf, pool>>

\* The ZADD fails: the entry is pushed back to its lane and the error returned.
moveToProcessingError(w) ==
    /\ worker[w].pc = "moveToProcessing"
    /\ faults < MaxFaults
    /\ faults' = faults + 1
    /\ worker' = [worker EXCEPT ![w].pc = "PutBack"]
    /\ UNCHANGED <<task, model, lanes, processing, delayed, now, client, reaper,
                   promoter, nextId, hist, conf, pool>>

PutBack(w) ==
    /\ worker[w].pc = "PutBack"
    /\ lanes' = [lanes EXCEPT ![queues[worker[w].qi]] = LPush(@, worker[w].item)]
    /\ worker' = [worker EXCEPT ![w] = Return(w)]
    /\ UNCHANGED <<task, model, processing, delayed, now, client, reaper,
                   promoter, nextId, faults, hist, conf, pool>>

\* processNextTask: GetTask; an error (no such row) is returned to the loop.
GetTask(w) ==
    /\ worker[w].pc = "GetTask"
    /\ worker' = [worker EXCEPT ![w] =
            IF task[worker[w].item.task_id].exists
            THEN [worker[w] EXCEPT !.pc = "StartTask"]
            ELSE Return(w)]
    /\ UNCHANGED <<task, model, lanes, processing, delayed, now, client, reaper,
                   promoter, nextId, faults, hist, conf, pool>>

\* executeTask: StartTask.
StartTask(w) ==
    /\ worker[w].pc = "StartTask"
    /\ LET id == worker[w].item.task_id
       IN task' = UpdateRow(id, StartTaskRow(task[id]))
    /\ worker' = [worker EXCEPT ![w].pc = "GetModel"]
    /\ UNCHANGED <<model, lanes, processing, delayed, now, client, reaper,
                   promoter, nextId, faults, hist, conf, pool>>

\* StartTask's UPDATE fails: executeTask returns the error.
StartTaskError(w) ==
    /\ worker[w].pc = "StartTask"
    /\ faults < MaxFaults
    /\ faults' = faults + 1
    /\ worker' = [worker EXCEPT ![w] = Return(w)]
    /\ UNCHANGED <<task, model, lanes, processing, delayed, now, client, reaper,
                   promoter, nextId, hist, conf, pool>>

\* executeTask: GetModel; without the model row the task is failed.
GetModel(w) ==
    /\ worker[w].pc = "GetModel"
    /\ worker' = [worker EXCEPT ![w] =
            IF model[worker[w].item.model_id].exists
            THEN [worker[w] EXCEPT !.pc = "executeTaskByType"]
            ELSE [worker[w] EXCEPT !.pc = "FailTask", !.res = "nomodel"]]
    /\ UNCHANGED <<task, model, lanes, processing, delayed, now, client, reaper,
                   promoter, nextId, faults, hist, conf, pool>>

\* GetModel fails on the store: the task is failed the same way.
GetModelError(w) ==
    /\ worker[w].pc = "GetModel"
    /\ faults < MaxFaults
    /\ faults' = faults + 1
    /\ worker' = [worker EXCEPT ![w].pc = "FailTask", ![w].res = "nomodel"]
    /\ UNCHANGED <<task, model, lanes, processing, delayed, now, client, reaper,
                   promoter, nextId, hist, conf, pool>>

\* executeTaskByType: the adapter returns an output or an error.
executeTaskByType(w, ok) ==
    /\ worker[w].pc = "executeTaskByType"
    /\ worker' = [worker EXCEPT
            ![w].pc = IF ok THEN "CompleteTask" ELSE "FailTask",
            ![w].res = IF ok THEN "ok" ELSE "err"]
    /\ hist' = LogRun(worker[w].item.task_id)
    /\ UNCHANGED <<task, model, lanes, processing, delayed, now, client, reaper,
                   promoter, nextId, faults, conf, pool>>

\* executeTask: FailTask; after a missing model executeTask returns at once.
FailTask(w) ==
    /\ worker[w].pc = "FailTask"
    /\ LET id == worker[w].item.task_id
       IN /\ task' = UpdateRow(id, FailTaskRow(task[id]))
          /\ hist' = IF task[id].exists THEN LogDone(id) ELSE hist
    /\ worker' = [worker EXCEPT ![w] =
            IF worker[w].res = "nomodel" THEN Return(w)
            ELSE [worker[w] EXCEPT !.pc = "IncrementRequestCount"]]
    /\ UNCHANGED <<model, lanes, processing, delayed, now, client, reaper,
                   promoter, nextId, faults, conf, pool>>

\* executeTask: CompleteTask.
CompleteTask(w) ==
    /\ worker[w].pc = "CompleteTask"
    /\ LET id == worker[w].item.task_id
       IN /\ task' = UpdateRow(id, CompleteTaskRow(task[id]))
          /\ hist' = IF task[id].exists THEN LogDone(id) ELSE hist
    /\ worker' = [worker EXCEPT ![w].pc = "IncrementRequestCount"]
    /\ UNCHANGED <<model, lanes, processing, delayed, now, client, reaper,
                   promoter, nextId, faults, conf, pool>>

\* CompleteTask's UPDATE fails: the error is logged and executeTask goes on.
CompleteTaskError(w) ==
    /\ worker[w].pc = "CompleteTask"
    /\ faults < MaxFaults
    /\ faults' = faults + 1
    /\ worker' = [worker EXCEPT ![w].pc = "IncrementRequestCount", ![w].unsaved = TRUE]
    /\ UNCHANGED <<task, model, lanes, processing, delayed, now, client, reaper,
                   promoter, nextId, hist, conf, pool>>

\* executeTask: IncrementRequestCount(model.ID, success).
WorkerIncrementRequestCount(w) ==
    /\ worker[w].pc = "IncrementRequestCount"
    /\ model' = IncrementRequestCount(worker[w].item.model_id, worker[w].res = "ok")
    /\ worker' = [worker EXCEPT ![w].pc = "QueueCompleteTask"]
    /\ UNCHANGED <<task, lanes, processing, delayed, now, client, reaper,
                   promoter, nextId, faults, hist, conf, pool>>

\* executeTask: queueManager.CompleteTask(task.ID), the ack.
QueueCompleteTask(w) ==
    /\ worker[w].pc = "QueueCompleteTask"
    /\ processing' = Ack(worker[w].item.task_id)
    /\ worker' = [worker EXCEPT ![w] = Return(w)]
    /\ UNCHANGED <<task, model, lanes, delayed, now, client, reaper, promoter, nextId,
                   faults, hist, conf, pool>>

(* ----------------------------- TaskService ---------------------------- *)
\* A hook that leaves the priority as the request gave it.
BeforeCreateNone(priority) == priority

\* Task.BeforeCreate: a request without priority gets medium.
BeforeCreate(priority) == IF priority = 0 THEN TaskPriorityMedium ELSE priority

NewTask(m, priority) ==
    [exists |-> TRUE, model_id |-> m, status |-> "pending",
     priority |-> BeforeCreate(priority), retry_count |-> 0,
     max_retries |-> DefaultMaxRetries, output |-> FALSE, error_message |-> FALSE,
     started_at |-> FALSE, completed_at |-> FALSE]

Done(c) == [client EXCEPT ![c] = IdleClient]

\* CreateTask: the model is looked up; "model not found" ends the call.
CreateTask(c, m, priority) ==
    /\ client[c].pc = "idle"
    /\ nextId <= conf.tasks
    /\ model[m].exists
    /\ client' = [client EXCEPT ![c] =
            [IdleClient EXCEPT !.pc = "Create", !.model_id = m, !.priority = priority]]
    /\ UNCHANGED <<task, model, lanes, processing, delayed, now, worker, reaper,
                   promoter, nextId, faults, hist, conf, pool>>

\* CreateTask: db.Create; the foreign key refuses a row of a model that is gone.
Create(c) ==
    /\ client[c].pc = "Create"
    /\ IF model[client[c].model_id].exists
       THEN /\ task' = [task EXCEPT ![nextId] =
                            NewTask(client[c].model_id, client[c].priority)]
            /\ nextId' = nextId + 1
            /\ client' = [client EXCEPT ![c].pc = "CreateEnqueue", ![c].id = nextId,
                                        ![c].priority = BeforeCreate(@)]
       ELSE /\ client' = Done(c)
            /\ UNCHANGED <<task, nextId>>
    /\ UNCHANGED <<model, lanes, processing, delayed, now, worker, reaper,
                   promoter, faults, hist, conf, pool>>

\* EnqueueTask: LPUSH of the item on the lane of the task's priority.
EnqueueTask(item) == [lanes EXCEPT ![getQueueKey(item.priority)] = LPush(@, item)]

\* The QueueItem EnqueueTask builds from the task struct the caller holds.
\* created_at is the struct's timestamp as it serialises: 0 for the value
\* db.Create left in the struct, 1 for the value read back from the column.
ClientItem(c, stamp) ==
    [task_id |-> client[c].id, model_id |-> client[c].model_id,
     priority |-> client[c].priority, created_at |-> stamp]

\* CreateTask: EnqueueTask of the struct db.Create filled.
CreateEnqueue(c) ==
    /\ client[c].pc = "CreateEnqueue"
    /\ lanes' = EnqueueTask(ClientItem(c, 0))
    /\ hist' = LogEnq(ClientItem(c, 0))
    /\ client' = Done(c)
    /\ UNCHANGED <<task, model, processing, delayed, now, worker, reaper,
                   promoter, nextId, faults, conf, pool>>

\* EnqueueTask fails: CreateTask marks the row failed, in two UPDATEs.
CreateEnqueueError(c) ==
    /\ client[c].pc = "CreateEnqueue"
    /\ faults < MaxFaults
    /\ faults' = faults + 1
    /\ client' = [client EXCEPT ![c].pc = "CreateUpdateStatus"]
    /\ UNCHANGED <<task, model, lanes, processing, delayed, now, worker, reaper,
                   promoter, nextId, hist, conf, pool>>

\* A status UPDATE that writes nothing.
EnqueueFailedRowKept(row) == row

\* CreateTask after a failed EnqueueTask: Update("status", TaskStatusFailed).
EnqueueFailedRow(row) == [row EXCEPT !.status = "failed"]

CreateUpdateStatus(c) ==
    /\ client[c].pc = "CreateUpdateStatus"
    /\ task' = UpdateRow(client[c].id, EnqueueFailedRow(task[client[c].id]))
    /\ client' = [client EXCEPT ![c].pc = "CreateUpdateMessage"]
    /\ UNCHANGED <<model, lanes, processing, delayed, now, worker, reaper,
                   promoter, nextId, faults, hist, conf, pool>>

CreateUpdateMessage(c) ==
    /\ client[c].pc = "CreateUpdateMessage"
    /\ task' = UpdateRow(client[c].id, [task[client[c].id] EXCEPT !.error_message = TRUE])
    /\ client' = Done(c)
    /\ UNCHANGED <<model, lanes, processing, delayed, now, worker, reaper,
                   promoter, nextId, faults, hist, conf, pool>>

\* UpdateTask: the row is written with the request's priority and status.
UpdateTaskRow(row, priority, status) ==
    [row EXCEPT !.priority = IF priority = 0 THEN @ ELSE priority,
                !.status = IF status = "none" THEN @ ELSE status]

UpdateTask(c, id, priority, status) ==
    /\ client[c].pc = "idle"
    /\ task[id].exists
    /\ priority # 0 \/ status # "none"
    /\ task' = [task EXCEPT ![id] = UpdateTaskRow(@, priority, status)]
    /\ UNCHANGED <<model, lanes, processing, delayed, now, worker, client, reaper,
                   promoter, nextId, faults, hist, conf, pool>>

\* CancelTask: the row is read; only pending and running tasks go on.
CanCancel(status) == status = "pending" \/ status = "running"

CancelTask(c, id) ==
    /\ client[c].pc = "idle"
    /\ task[id].exists
    /\ CanCancel(task[id].status)
    /\ client' = [client EXCEPT ![c] =
            [IdleClient EXCEPT !.pc = "CancelUpdate", !.id = id,
                               !.status = task[id].status]]
    /\ UNCHANGED <<task, model, lanes, processing, delayed, now, worker, reaper,
                   promoter, nextId, faults, hist, conf, pool>>

\* CancelTask: the UPDATE to cancelled; a task read as running is acked next.
CancelTaskRow(row) == [row EXCEPT !.status = "cancelled", !.completed_at = TRUE]

NeedsAck(status) == status = "running"

CancelUpdate(c) ==
    /\ client[c].pc = "CancelUpdate"
    /\ task' = UpdateRow(client[c].id, CancelTaskRow(task[client[c].id]))
    /\ IF NeedsAck(client[c].status)
       THEN /\ client' = [client EXCEPT ![c].pc = "CancelAck"]
            /\ hist' = hist
       ELSE /\ client' = Done(c)
            /\ hist' = [hist EXCEPT !.cancelOk = @ \cup {client[c].id}]
    /\ UNCHANGED <<model, lanes, processing, delayed, now, worker, reaper,
                   promoter, nextId, faults, conf, pool>>

CancelAck(c) ==
    /\ client[c].pc = "CancelAck"
    /\ processing' = Ack(client[c].id)
    /\ client' = Done(c)
    /\ hist' = [hist EXCEPT !.cancelOk = @ \cup {client[c].id}]
    /\ UNCHANGED <<task, model, lanes, delayed, now, worker, reaper, promoter,
                   nextId, faults, conf, pool>>

\* The status check alone.
CanRetryAnyCount(row) == row.status = "failed"

\* RetryTask: the row is read; only a failed task with retries left goes on.
CanRetry(row) == row.status = "failed" /\ row.retry_count < row.max_retries

RetryTask(c, id) ==
    /\ client[c].pc = "idle"
    /\ task[id].exists
    /\ CanRetry(task[id])
    /\ hist.retries < conf.retries
    /\ hist' = [hist EXCEPT !.retries = @ + 1]
    /\ client' = [client EXCEPT ![c] =
            [IdleClient EXCEPT !.pc = "RetryUpdate", !.id = id,
                               !.model_id = task[id].model_id,
                               !.priority = task[id].priority,
                               !.retry_count = task[id].retry_count]]
    /\ UNCHANGED <<task, model, lanes, processing, delayed, now, worker, reaper,
                   promoter, nextId, faults, conf, pool>>

\* RetryTask: the UPDATE; retry_count is the value read plus one.
RetryTaskRow(row, read) ==
    [row EXCEPT !.status = "pending", !.error_message = FALSE, !.started_at = FALSE,
                !.completed_at = FALSE, !.retry_count = read + 1]

RetryUpdate(c) ==
    /\ client[c].pc = "RetryUpdate"
    /\ task' = UpdateRow(client[c].id,
                         RetryTaskRow(task[client[c].id], client[c].retry_count))
    /\ client' = [client EXCEPT ![c].pc = "RetryEnqueue"]
    /\ UNCHANGED <<model, lanes, processing, delayed, now, worker, reaper,
                   promoter, nextId, faults, hist, conf, pool>>

\* RetryTask: EnqueueTask of the struct that was read.
RetryEnqueue(c) ==
    /\ client[c].pc = "RetryEnqueue"
    /\ lanes' = EnqueueTask(ClientItem(c, 1))
    /\ hist' = LogEnq(ClientItem(c, 1))
    /\ client' = Done(c)
    /\ UNCHANGED <<task, model, processing, delayed, now, worker, reaper,
                   promoter, nextId, faults, conf, pool>>

\* EnqueueTask fails: RetryTask returns the error.
RetryEnqueueError(c) ==
    /\ client[c].pc = "RetryEnqueue"
    /\ faults < MaxFaults
    /\ faults' = faults + 1
    /\ client' = Done(c)
    /\ UNCHANGED <<task, model, lanes, processing, delayed, now, worker, reaper,
                   promoter, nextId, hist, conf, pool>>


(* ------------------------- reaper and promoter ------------------------ *)
\* The members of a ZRANGEBYSCORE reply, in the order of the reply.
RECURSIVE Sorted(_, _)
Sorted(z, S) ==
    IF S = {} THEN <<>>
    ELSE LET x == CHOOSE x \in S : \A y \in S : Rank(z, x) <= Rank(z, y)
         IN <<x>> \o Sorted(z, S \ {x})

\* CleanupStuckTasks: the members claimed at or before now - task_timeout.
CleanupStuckTasks ==
    /\ reaper.pc = "idle"
    /\ ZRangeByScore(processing, now - TaskTimeout) # {}
    /\ reaper' = [pc |-> "enqueueDelayed",
                  results |-> Sorted(processing, ZRangeByScore(processing, now - TaskTimeout))]
    /\ hist' = LogSweep
    /\ UNCHANGED <<task, model, lanes, processing, delayed, now, worker, client,
                   promoter, nextId, faults, conf, pool>>

\* The delayed set left as it is.
enqueueDelayedDropped(item, delay) == delayed

\* enqueueDelayed: ZADD to the delayed set with score now + delay.
enqueueDelayed(item, delay) == ZAdd(delayed, item, now + delay)

CleanupEnqueueDelayed ==
    /\ reaper.pc = "enqueueDelayed"
    /\ delayed' = enqueueDelayed(Head(reaper.results), RetryDelay)
    /\ reaper' = [reaper EXCEPT !.pc = "ZRem"]
    /\ UNCHANGED <<task, model, lanes, processing, now, worker, client, promoter,
                   nextId, faults, hist, conf, pool>>

\* CleanupStuckTasks: the member is removed from the processing set.
CleanupZRem ==
    /\ reaper.pc = "ZRem"
    /\ processing' = ZRem(processing, Head(reaper.results))
    /\ reaper' = IF Len(reaper.results) = 1 THEN IdleSweep
                 ELSE [pc |-> "enqueueDelayed", results |-> Tail(reaper.results)]
    /\ hist' = LogReaped(Head(reaper.results).task_id)
    /\ UNCHANGED <<task, model, lanes, delayed, now, worker, client, promoter,
                   nextId, faults, conf, pool>>

\* ProcessDelayedTasks: the members whose score is at most now.
ProcessDelayedTasks ==
    /\ promoter.pc = "idle"
    /\ ZRangeByScore(delayed, now) # {}
    /\ promoter' = [pc |-> "LPush",
                    results |-> Sorted(delayed, ZRangeByScore(delayed, now))]
    /\ UNCHANGED <<task, model, lanes, processing, delayed, now, worker, client,
                   reaper, nextId, faults, hist, conf, pool>>

\* ProcessDelayedTasks: LPUSH on the lane of the item's priority.
PromoteLPush ==
    /\ promoter.pc = "LPush"
    /\ lanes' = [lanes EXCEPT ![getQueueKey(Head(promoter.results).priority)] =
                        LPush(@, Head(promoter.results))]
    /\ promoter' = [promoter EXCEPT !.pc = "ZRem"]
    /\ UNCHANGED <<task, model, processing, delayed, now, worker, client, reaper,
                   nextId, faults, hist, conf, pool>>

\* ProcessDelayedTasks: the member is removed from the delayed set.
PromoteZRem ==
    /\ promoter.pc = "ZRem"
    /\ delayed' = ZRem(delayed, Head(promoter.results))
    /\ promoter' = IF Len(promoter.results) = 1 THEN IdleSweep
                   ELSE [pc |-> "LPush", results |-> Tail(promoter.results)]
    /\ UNCHANGED <<task, model, lanes, processing, now, worker, client, reaper,
                   nextId, faults, hist, conf, pool>>

\* The clock.
Tick ==
    /\ now < MaxTime
    /\ now' = now + 1
    /\ UNCHANGED <<task, model, lanes, processing, delayed, worker, client,
                   reaper, promoter, nextId, faults, hist, conf, pool>>

(* --------------------------- the whole system ------------------------- *)
\* Every task and the worker are of model 1, so DequeueTask never meets an
\* entry of another model here; SpecQueue covers that branch.
Next ==
    \/ \E w \in DOMAIN worker : BRPopEmpty(w)
    \/ \E w \in DOMAIN worker : BRPopItem(w)
    \/ \E w \in DOMAIN worker : moveToProcessing(w)
    \/ \E w \in DOMAIN worker : moveToProcessingError(w)
    \/ \E w \in DOMAIN worker : PutBack(w)
    \/ \E w \in DOMAIN worker : GetTask(w)
    \/ \E w \in DOMAIN worker : StartTask(w)
    \/ \E w \in DOMAIN worker : StartTaskError(w)
    \/ \E w \in DOMAIN worker : GetModel(w)
    \/ \E w \in DOMAIN worker : GetModelError(w)
    \/ \E w \in DOMAIN worker, ok \in BOOLEAN : executeTaskByType(w, ok)
    \/ \E w \in DOMAIN worker : FailTask(w)
    \/ \E w \in DOMAIN worker : CompleteTask(w)
    \/ \E w \in DOMAIN worker : CompleteTaskError(w)
    \/ \E w \in DOMAIN worker : WorkerIncrementRequestCount(w)
    \/ \E w \in DOMAIN worker : QueueCompleteTask(w)
    \/ \E c \in DOMAIN client, p \in {0, TaskPriorityHigh} : CreateTask(c, 1, p)
    \/ \E c \in DOMAIN client : Create(c)
    \/ \E c \in DOMAIN client : CreateEnqueue(c)
    \/ \E c \in DOMAIN client : CreateEnqueueError(c)
    \/ \E c \in DOMAIN client : CreateUpdateStatus(c)
    \/ \E c \in DOMAIN client : CreateUpdateMessage(c)
    \/ \E c \in DOMAIN client, id \in Tasks, s \in {"pending", "completed"} :
            UpdateTask(c, id, 0, s)
    \/ \E c \in DOMAIN client, id \in Tasks : CancelTask(c, id)
    \/ \E c \in DOMAIN client : CancelUpdate(c)
    \/ \E c \in DOMAIN client : CancelAck(c)
    \/ \E c \in DOMAIN client, id \in Tasks : RetryTask(c, id)
    \/ \E c \in DOMAIN client : RetryUpdate(c)
    \/ \E c \in DOMAIN client : RetryEnqueue(c)
    \/ \E c \in DOMAIN client : RetryEnqueueError(c)
    \/ CleanupStuckTasks
    \/ CleanupEnqueueDelayed
    \/ CleanupZRem
    \/ ProcessDelayedTasks
    \/ PromoteLPush
    \/ PromoteZRem
    \/ Tick

Spec == Init /\ [][Next]_vars

(* ------------------- the queue manager, called in turn ---------------- *)
\* No call is in progress: the caller of DequeueTask is between two calls.
Idle(w) == worker[w].pc = "BRPop" /\ worker[w].qi = 1

\* EnqueueTask(task) for a task struct of any model and priority.
QueueEnqueueTask(m, priority) ==
    /\ \A w \in DOMAIN worker : Idle(w)
    /\ nextId <= conf.tasks
    /\ LET item == [task_id |-> nextId, model_id |-> m, priority |-> priority,
                    created_at |-> 0]
       IN /\ lanes' = EnqueueTask(item)
          /\ hist' = LogEnq(item)
    /\ nextId' = nextId + 1
    /\ UNCHANGED <<task, model, processing, delayed, now, worker, client, reaper,
                   promoter, faults, conf, pool>>

\* The caller has its item; it acks it and is ready to call again.
QueueAck(w) ==
    /\ worker[w].pc = "GetTask"
    /\ processing' = Ack(worker[w].item.task_id)
    /\ worker' = [worker EXCEPT ![w] = Return(w)]
    /\ UNCHANGED <<task, model, lanes, delayed, now, client, reaper, promoter,
                   nextId, faults, hist, conf, pool>>

\* A caller of DequeueTask(1); entries of the models 1 and 2 are enqueued.
InitQueue ==
    /\ worker = [w \in {"w1"} |-> IdleWorker(1)]
    /\ client = [c \in {} |-> IdleClient]
    /\ pool = RunningPool
    /\ conf = [cascade |-> TRUE, sweeps |-> 0, models |-> Models, tasks |-> MaxQTasks, retries |-> 0, log |-> TRUE]
    /\ InitStores
    /\ hist = NoHist

NextQueue ==
    \/ \E m \in Models, p \in {TaskPriorityLow, TaskPriorityMedium, TaskPriorityHigh} :
            QueueEnqueueTask(m, p)
    \/ \E w \in DOMAIN worker : BRPopEmpty(w)
    \/ \E w \in DOMAIN worker : BRPopItem(w)
    \/ \E w \in DOMAIN worker : Requeue(w)
    \/ \E w \in DOMAIN worker : moveToProcessing(w)
    \/ \E w \in DOMAIN worker : QueueAck(w)

SpecQueue == InitQueue /\ [][NextQueue]_vars

\* The same caller with key-value store calls that can fail.
NextFault ==
    \/ NextQueue
    \/ \E w \in DOMAIN worker : RequeueError(w)
    \/ \E w \in DOMAIN worker : moveToProcessingError(w)
    \/ \E w \in DOMAIN worker : PutBack(w)

SpecFault == InitQueue /\ [][NextFault]_vars

(* ------------- two callers of DequeueTask, one per model -------------- *)
InitStarve ==
    /\ worker = [w \in {"w1", "w2"} |-> IdleWorker(IF w = "w1" THEN 1 ELSE 2)]
    /\ client = [c \in {} |-> IdleClient]
    /\ pool = RunningPool
    /\ conf = [cascade |-> TRUE, sweeps |-> 0, models |-> Models, tasks |-> MaxLTasks, retries |-> 0, log |-> TRUE]
    /\ InitStores
    /\ hist = NoHist

\* A caller's loop: DequeueTask again and again, acking what it gets.
QueueStep(w) ==
    \/ BRPopEmpty(w)
    \/ BRPopItem(w)
    \/ Requeue(w)
    \/ moveToProcessing(w)
    \/ QueueAck(w)

NextStarve ==
    \/ \E m \in Models, p \in {TaskPriorityLow, TaskPriorityMedium, TaskPriorityHigh} :
            QueueEnqueueTask(m, p)
    \/ \E w \in DOMAIN worker : BRPopEmpty(w)
    \/ \E w \in DOMAIN worker : BRPopItem(w)
    \/ \E w \in DOMAIN worker : Requeue(w)
    \/ \E w \in DOMAIN worker : moveToProcessing(w)
    \/ \E w \in DOMAIN worker : QueueAck(w)

\* Every worker goroutine keeps running.
FairStarve == \A w \in {"w1", "w2"} : WF_vars(QueueStep(w))

SpecStarve == InitStarve /\ [][NextStarve]_vars /\ FairStarve

(* ------------- one model, one worker, started after the creates ------- *)
Created == nextId > conf.tasks /\ \A c \in DOMAIN client : client[c].pc = "idle"

InitPrio ==
    /\ worker = [w \in {"w1"} |-> IdleWorker(1)]
    /\ client = [c \in {"c1"} |-> IdleClient]
    /\ pool = RunningPool
    /\ conf = [cascade |-> TRUE, sweeps |-> 0, models |-> Models, tasks |-> MaxPTasks, retries |-> 0, log |-> TRUE]
    /\ InitStores
    /\ hist = NoHist

NextPrio ==
    \/ \E c \in DOMAIN client,
          p \in {TaskPriorityLow, TaskPriorityMedium, TaskPriorityHigh} :
            CreateTask(c, 1, p)
    \/ \E c \in DOMAIN client : Create(c)
    \/ \E c \in DOMAIN client : CreateEnqueue(c)
    \/ Created /\ \E w \in DOMAIN worker : BRPopEmpty(w)
    \/ Created /\ \E w \in DOMAIN worker : BRPopItem(w)
    \/ \E w \in DOMAIN worker : moveToProcessing(w)
    \/ \E w \in DOMAIN worker : GetTask(w)
    \/ \E w \in DOMAIN worker : StartTask(w)
    \/ \E w \in DOMAIN worker : GetModel(w)
    \/ \E w \in DOMAIN worker, ok \in BOOLEAN : executeTaskByType(w, ok)
    \/ \E w \in DOMAIN worker : FailTask(w)
    \/ \E w \in DOMAIN worker : CompleteTask(w)
    \/ \E w \in DOMAIN worker : WorkerIncrementRequestCount(w)
    \/ \E w \in DOMAIN worker : QueueCompleteTask(w)

SpecPrio == InitPrio /\ [][NextPrio]_vars

(* ------------- a worker that stops for good, and the sweeps ----------- *)
Live(w) == worker[w].pc # "stopped"

\* The process ends while a worker is still inside executeTask (stopAllWorkers
\* gives up waiting after 30 s): the goroutine is gone, its entry stays in the
\* processing set and its row stays running.
Crash(w) ==
    /\ \A v \in DOMAIN worker : Live(v)
    /\ worker[w].pc \in {"GetModel", "executeTaskByType", "CompleteTask"}
    /\ task[worker[w].item.task_id].exists
    /\ task[worker[w].item.task_id].status = "running"
    /\ worker[w].item \in DOMAIN processing
    /\ worker' = [worker EXCEPT ![w].pc = "stopped"]
    /\ UNCHANGED <<task, model, lanes, processing, delayed, now, client, reaper,
                   promoter, nextId, faults, hist, conf, pool>>

\* Some entry waits for the clock: an in-flight entry that has not expired or
\* a delayed entry that is not due.
AwaitsClock ==
    \/ \E x \in DOMAIN processing : processing[x] > now - TaskTimeout
    \/ \E x \in DOMAIN delayed : delayed[x] > now

\* The clock of a run in which every live worker finishes its task within
\* task_timeout: it does not move past the expiry of an entry a live worker
\* holds, and it moves only while some entry waits for it.
TickInTime ==
    /\ now < MaxTime
    /\ AwaitsClock
    /\ \A w \in DOMAIN worker :
          (Live(w) /\ worker[w].item \in DOMAIN processing)
              => processing[worker[w].item] > now + 1 - TaskTimeout
    /\ now' = now + 1
    /\ UNCHANGED <<task, model, lanes, processing, delayed, worker, client,
                   reaper, promoter, nextId, faults, hist, conf, pool>>

\* Two workers of model 1; the adapter succeeds and no store call fails.
InitCrash ==
    /\ worker = [w \in {"w1", "w2"} |-> IdleWorker(1)]
    /\ client = [c \in {"c1"} |-> IdleClient]
    /\ pool = RunningPool
    /\ conf = [cascade |-> TRUE, sweeps |-> 0, models |-> Models, tasks |-> MaxCTasks, retries |-> 0, log |-> TRUE]
    /\ InitStores
    /\ hist = NoHist

\* One iteration step of Worker.Start's loop.
WorkerStep(w) ==
    \/ BRPopEmpty(w)
    \/ BRPopItem(w)
    \/ moveToProcessing(w)
    \/ GetTask(w)
    \/ StartTask(w)
    \/ GetModel(w)
    \/ executeTaskByType(w, TRUE)
    \/ CompleteTask(w)
    \/ WorkerIncrementRequestCount(w)
    \/ QueueCompleteTask(w)

NextCrash ==
    \/ \E c \in DOMAIN client : CreateTask(c, 1, TaskPriorityHigh)
    \/ \E c \in DOMAIN client : Create(c)
    \/ \E c \in DOMAIN client : CreateEnqueue(c)
    \/ \E w \in DOMAIN worker : BRPopEmpty(w)
    \/ \E w \in DOMAIN worker : BRPopItem(w)
    \/ \E w \in DOMAIN worker : moveToProcessing(w)
    \/ \E w \in DOMAIN worker : GetTask(w)
    \/ \E w \in DOMAIN worker : StartTask(w)
    \/ \E w \in DOMAIN worker : GetModel(w)
    \/ \E w \in DOMAIN worker : executeTaskByType(w, TRUE)
    \/ \E w \in DOMAIN worker : CompleteTask(w)
    \/ \E w \in DOMAIN worker : WorkerIncrementRequestCount(w)
    \/ \E w \in DOMAIN worker : QueueCompleteTask(w)
    \/ \E w \in DOMAIN worker : Crash(w)
    \/ CleanupStuckTasks
    \/ CleanupEnqueueDelayed
    \/ CleanupZRem
    \/ ProcessDelayedTasks
    \/ PromoteLPush
    \/ PromoteZRem
    \/ TickInTime

\* The worker loops, the two tickers of the pool manager and the clock go on.
FairCrash ==
    /\ \A w \in {"w1", "w2"} : WF_vars(WorkerStep(w))
    /\ WF_vars(CleanupStuckTasks \/ CleanupEnqueueDelayed \/ CleanupZRem)
    /\ WF_vars(ProcessDelayedTasks \/ PromoteLPush \/ PromoteZRem)
    /\ WF_vars(TickInTime)

SpecCrash == InitCrash /\ [][NextCrash]_vars /\ FairCrash

(* -------- one worker, the sweeps and RetryTask, with the history ------ *)
InitSweep ==
    /\ worker = [w \in {"w1"} |-> IdleWorker(1)]
    /\ client = [c \in {"c1"} |-> IdleClient]
    /\ pool = RunningPool
    /\ conf = [cascade |-> TRUE, sweeps |-> 0, models |-> Models, tasks |-> MaxSTasks, retries |-> MaxSRetryCalls, log |-> TRUE]
    /\ InitStores
    /\ hist = NoHist

NextSweep ==
    \/ \E c \in DOMAIN client : CreateTask(c, 1, TaskPriorityHigh)
    \/ \E c \in DOMAIN client : Create(c)
    \/ \E c \in DOMAIN client : CreateEnqueue(c)
    \/ \E c \in DOMAIN client, id \in Tasks : RetryTask(c, id)
    \/ \E c \in DOMAIN client : RetryUpdate(c)
    \/ \E c \in DOMAIN client : RetryEnqueue(c)
    \/ \E w \in DOMAIN worker : BRPopEmpty(w)
    \/ \E w \in DOMAIN worker : BRPopItem(w)
    \/ \E w \in DOMAIN worker : moveToProcessing(w)
    \/ \E w \in DOMAIN worker : GetTask(w)
    \/ \E w \in DOMAIN worker : StartTask(w)
    \/ \E w \in DOMAIN worker : GetModel(w)
    \/ \E w \in DOMAIN worker, ok \in BOOLEAN : executeTaskByType(w, ok)
    \/ \E w \in DOMAIN worker : FailTask(w)
    \/ \E w \in DOMAIN worker : CompleteTask(w)
    \/ \E w \in DOMAIN worker : WorkerIncrementRequestCount(w)
    \/ \E w \in DOMAIN worker : QueueCompleteTask(w)
    \/ CleanupStuckTasks
    \/ CleanupEnqueueDelayed
    \/ CleanupZRem
    \/ ProcessDelayedTasks
    \/ PromoteLPush
    \/ PromoteZRem
    \/ Tick

SpecSweep == InitSweep /\ [][NextSweep]_vars

\* The same system with two workers of the model.
InitAck ==
    /\ worker = [w \in {"w1", "w2"} |-> IdleWorker(1)]
    /\ client = [c \in {"c1"} |-> IdleClient]
    /\ pool = RunningPool
    /\ conf = [cascade |-> TRUE, sweeps |-> 0, models |-> Models, tasks |-> MaxSTasks, retries |-> MaxSRetryCalls, log |-> TRUE]
    /\ InitStores
    /\ hist = NoHist

SpecAck == InitAck /\ [][NextSweep]_vars

(* ------------- two API callers retrying, one worker ------------------- *)
InitRetry ==
    /\ worker = [w \in {"w1"} |-> IdleWorker(1)]
    /\ client = [c \in {"c1", "c2"} |-> IdleClient]
    /\ pool = RunningPool
    /\ conf = [cascade |-> TRUE, sweeps |-> 0, models |-> Models, tasks |-> MaxRTasks, retries |-> MaxRRetryCalls, log |-> FALSE]
    /\ InitStores
    /\ hist = NoHist

NextRetry ==
    \/ \E c \in DOMAIN client : CreateTask(c, 1, TaskPriorityHigh)
    \/ \E c \in DOMAIN client : Create(c)
    \/ \E c \in DOMAIN client : CreateEnqueue(c)
    \/ \E c \in DOMAIN client, id \in Tasks : RetryTask(c, id)
    \/ \E c \in DOMAIN client : RetryUpdate(c)
    \/ \E c \in DOMAIN client : RetryEnqueue(c)
    \/ \E w \in DOMAIN worker : BRPopEmpty(w)
    \/ \E w \in DOMAIN worker : BRPopItem(w)
    \/ \E w \in DOMAIN worker : moveToProcessing(w)
    \/ \E w \in DOMAIN worker : GetTask(w)
    \/ \E w \in DOMAIN worker : StartTask(w)
    \/ \E w \in DOMAIN worker : GetModel(w)
    \/ \E w \in DOMAIN worker, ok \in BOOLEAN : executeTaskByType(w, ok)
    \/ \E w \in DOMAIN worker : FailTask(w)
    \/ \E w \in DOMAIN worker : CompleteTask(w)
    \/ \E w \in DOMAIN worker : WorkerIncrementRequestCount(w)
    \/ \E w \in DOMAIN worker : QueueCompleteTask(w)

SpecRetry == InitRetry /\ [][NextRetry]_vars

(* ------------------------ the worker pool manager --------------------- *)
\* The goroutine slots of the process; a slot without goroutine is at "none".
Slots == {"p1", "p2", "p3", "p4"}
NoWorker == [IdleWorker(0) EXCEPT !.pc = "none"]

\* GetAvailableModels: online and current_workers < max_workers.
GetAvailableModels ==
    {m \in Models : /\ model[m].exists
                    /\ model[m].status = "online"
                    /\ model[m].current_workers < model[m].max_workers}

\* startDefaultWorkers: max_workers workers per model (one when it is <= 0).
workerCount(m) == IF model[m].max_workers <= 0 THEN 1 ELSE model[m].max_workers

\* The startWorker calls of startDefaultWorkers, in the order of the loops.
RECURSIVE StartList(_)
StartList(S) ==
    IF S = {} THEN <<>>
    ELSE LET m == CHOOSE x \in S : \A y \in S : x <= y
         IN [i \in 1..workerCount(m) |-> m] \o StartList(S \ {m})

\* Manager.Start -> startDefaultWorkers: the models are read once.
PoolGetAvailableModels ==
    /\ pool.pc = "GetAvailableModels"
    /\ pool' = [pool EXCEPT
            !.todo = StartList(GetAvailableModels),
            !.pc = IF GetAvailableModels = {} THEN "running" ELSE "startWorker"]
    /\ UNCHANGED <<task, model, lanes, processing, delayed, now, worker, client,
                   reaper, promoter, nextId, faults, hist, conf>>

\* startWorker: the worker is put in the registry and its goroutine started.
PoolStartWorker ==
    /\ pool.pc = "startWorker"
    /\ \E r \in Slots : worker[r].pc = "none"
    /\ LET s == CHOOSE r \in Slots : worker[r].pc = "none"
       IN /\ worker' = [worker EXCEPT ![s] = IdleWorker(Head(pool.todo))]
          /\ pool' = [pool EXCEPT !.workers = @ \cup {s}, !.pc = "IncrementWorkerCount"]
    /\ UNCHANGED <<task, model, lanes, processing, delayed, now, client,
                   reaper, promoter, nextId, faults, hist, conf>>

\* ModelService.IncrementWorkerCount: current_workers + 1, without a bound.
IncrementWorkerCount(id) ==
    IF model[id].exists THEN [model EXCEPT ![id].current_workers = @ + 1] ELSE model

\* ModelService.DecrementWorkerCount: only WHERE current_workers > 0.
DecrementWorkerCount(id) ==
    IF model[id].exists /\ model[id].current_workers > 0
    THEN [model EXCEPT ![id].current_workers = @ - 1]
    ELSE model

\* startWorker: IncrementWorkerCount, after the goroutine was started.
PoolIncrementWorkerCount ==
    /\ pool.pc = "IncrementWorkerCount"
    /\ model' = IncrementWorkerCount(Head(pool.todo))
    /\ pool' = [pool EXCEPT
            !.todo = Tail(@),
            !.pc = IF Len(pool.todo) = 1 THEN "running" ELSE "startWorker"]
    /\ UNCHANGED <<task, lanes, processing, delayed, now, worker, client,
                   reaper, promoter, nextId, faults, hist, conf>>

\* main: the signal arrives and the context is cancelled.
PoolCancel ==
    /\ pool.pc # "exited"
    /\ ~pool.cancelled
    /\ pool' = [pool EXCEPT !.cancelled = TRUE]
    /\ UNCHANGED <<task, model, lanes, processing, delayed, now, worker, client,
                   reaper, promoter, nextId, faults, hist, conf>>

\* Manager.Start after <-ctx.Done(): stopAllWorkers takes workersMutex, stops
\* every worker and waits, the mutex held, for the registry to empty.
stopAllWorkers ==
    /\ pool.pc = "running"
    /\ pool.cancelled
    /\ pool' = [pool EXCEPT !.pc = IF pool.workers = {} THEN "stopped" ELSE "waiting"]
    /\ UNCHANGED <<task, model, lanes, processing, delayed, now, worker, client,
                   reaper, promoter, nextId, faults, hist, conf>>

\* stopAllWorkers: the 30 s are over; it returns and the mutex is released.
stopAllWorkersTimeout ==
    /\ pool.pc = "waiting"
    /\ pool' = [pool EXCEPT !.pc = "stopped"]
    /\ UNCHANGED <<task, model, lanes, processing, delayed, now, worker, client,
                   reaper, promoter, nextId, faults, hist, conf>>

\* Worker.Start: the loop sees ctx.Done() between two tasks and returns.
WorkerStop(s) ==
    /\ pool.cancelled
    /\ Idle(s)
    /\ worker' = [worker EXCEPT ![s].pc = "delete"]
    /\ UNCHANGED <<task, model, lanes, processing, delayed, now, client,
                   reaper, promoter, nextId, faults, hist, conf, pool>>

\* The goroutine of startWorker: delete(m.workers, id) under workersMutex.
WorkerDelete(s) ==
    /\ worker[s].pc = "delete"
    /\ pool.pc # "waiting"
    /\ pool' = [pool EXCEPT !.workers = @ \ {s}]
    /\ worker' = [worker EXCEPT ![s].pc = "DecrementWorkerCount"]
    /\ UNCHANGED <<task, model, lanes, processing, delayed, now, client,
                   reaper, promoter, nextId, faults, hist, conf>>

\* The goroutine of startWorker: DecrementWorkerCount, then it ends.
WorkerDecrementWorkerCount(s) ==
    /\ worker[s].pc = "DecrementWorkerCount"
    /\ model' = DecrementWorkerCount(worker[s].model)
    /\ worker' = [worker EXCEPT ![s] = NoWorker]
    /\ UNCHANGED <<task, lanes, processing, delayed, now, client,
                   reaper, promoter, nextId, faults, hist, conf, pool>>

\* main returns after srv.Shutdown: the process ends with all its goroutines;
\* the rows of the database stay as they are.
ProcessExit ==
    /\ pool.cancelled
    /\ pool.pc # "exited"
    /\ worker' = [s \in DOMAIN worker |-> NoWorker]
    /\ pool' = [pool EXCEPT !.pc = "exited", !.workers = {}, !.todo = <<>>]
    /\ UNCHANGED <<task, model, lanes, processing, delayed, now, client,
                   reaper, promoter, nextId, faults, hist, conf>>

\* The process is started again on the same database.
ProcessStart ==
    /\ pool.pc = "exited"
    /\ pool.restarts < MaxRestarts
    /\ pool' = [pool EXCEPT !.pc = "GetAvailableModels", !.cancelled = FALSE,
                            !.restarts = @ + 1]
    /\ UNCHANGED <<task, model, lanes, processing, delayed, now, worker, client,
                   reaper, promoter, nextId, faults, hist, conf>>

\* The first start of the process on a database whose counters are 0.
InitPool ==
    /\ worker = [s \in Slots |-> NoWorker]
    /\ client = [c \in {} |-> IdleClient]
    /\ pool = [RunningPool EXCEPT !.pc = "GetAvailableModels", !.workers = {}]
    /\ conf = [cascade |-> TRUE, sweeps |-> 0, models |-> Models, tasks |-> 0, retries |-> 0, log |-> FALSE]
    /\ InitStores
    /\ hist = NoHist

NextPool ==
    \/ PoolGetAvailableModels
    \/ PoolStartWorker
    \/ PoolIncrementWorkerCount
    \/ PoolCancel
    \/ stopAllWorkers
    \/ stopAllWorkersTimeout
    \/ \E s \in Slots : WorkerStop(s)
    \/ \E s \in Slots : WorkerDelete(s)
    \/ \E s \in Slots : WorkerDecrementWorkerCount(s)
    \/ ProcessExit
    \/ ProcessStart

SpecPool == InitPool /\ [][NextPool]_vars

(* --------------- two workers of one model counting requests ----------- *)
\* CreateModel: the handler binds the request body to a Model, so the row is
\* inserted with the counters of the request; a status left empty becomes
\* offline and a max_workers <= 0 becomes 1.
CreateModel(m, max, total, success) ==
    /\ ~model[m].exists
    /\ \A k \in Models : k < m => model[k].exists
    /\ model' = [model EXCEPT ![m] =
            [exists |-> TRUE, status |-> "offline",
             total_requests |-> total, success_requests |-> success,
             max_workers |-> IF max <= 0 THEN 1 ELSE max, current_workers |-> 0]]
    /\ UNCHANGED <<task, lanes, processing, delayed, now, worker, client,
                   reaper, promoter, nextId, faults, hist, conf, pool>>

\* An UPDATE of the status that also clears the worker counter.
UpdateStatusAndCounter(row, status) ==
    [row EXCEPT !.status = status, !.current_workers = 0]

\* ModelService.UpdateModelStatus: UPDATE models SET status = ? WHERE id = ?.
UpdateStatusRow(row, status) == [row EXCEPT !.status = status]

UpdateModelStatus(m, status) ==
    /\ model[m].exists
    /\ model' = [model EXCEPT ![m] = UpdateStatusRow(@, status)]
    /\ UNCHANGED <<task, lanes, processing, delayed, now, worker, client,
                   reaper, promoter, nextId, faults, hist, conf, pool>>

\* Model 1 is there; the second model is created through the API.
InitCount ==
    /\ worker = [w \in {"w1", "w2"} |-> IdleWorker(1)]
    /\ client = [c \in {"c1"} |-> IdleClient]
    /\ pool = RunningPool
    /\ conf = [cascade |-> TRUE, sweeps |-> 0, models |-> {1}, tasks |-> MaxNTasks, retries |-> 0, log |-> FALSE]
    /\ InitStores
    /\ hist = NoHist

NextCount ==
    \/ \E max \in {0, SeedMaxWorkers}, total \in 0..1, success \in 0..1 :
            CreateModel(2, max, total, success)
    \/ \E m \in Models, st \in {"online", "offline", "maintenance"} :
            UpdateModelStatus(m, st)
    \/ \E c \in DOMAIN client : CreateTask(c, 1, TaskPriorityHigh)
    \/ \E c \in DOMAIN client : Create(c)
    \/ \E c \in DOMAIN client : CreateEnqueue(c)
    \/ \E w \in DOMAIN worker : BRPopEmpty(w)
    \/ \E w \in DOMAIN worker : BRPopItem(w)
    \/ \E w \in DOMAIN worker : moveToProcessing(w)
    \/ \E w \in DOMAIN worker : GetTask(w)
    \/ \E w \in DOMAIN worker : StartTask(w)
    \/ \E w \in DOMAIN worker : GetModel(w)
    \/ \E w \in DOMAIN worker, ok \in BOOLEAN : executeTaskByType(w, ok)
    \/ \E w \in DOMAIN worker : FailTask(w)
    \/ \E w \in DOMAIN worker : CompleteTask(w)
    \/ \E w \in DOMAIN worker : WorkerIncrementRequestCount(w)
    \/ \E w \in DOMAIN worker : QueueCompleteTask(w)

SpecCount == InitCount /\ [][NextCount]_vars

(* --------------- deleting a model while tasks are created ------------- *)
\* The rows of a model's tasks: tasks.model_id references models.id.
TasksOf(m) == {t \in Tasks : task[t].exists /\ task[t].model_id = m}

\* DeleteModel: the COUNT of the model's pending and running tasks; a count
\* above zero ends the call with an error.
runningTaskCount(m) ==
    Cardinality({t \in TasksOf(m) : task[t].status \in {"pending", "running"}})

DeleteModel(c, m) ==
    /\ client[c].pc = "idle"
    /\ runningTaskCount(m) = 0
    /\ client' = [client EXCEPT ![c] = [IdleClient EXCEPT !.pc = "Delete", !.model_id = m]]
    /\ UNCHANGED <<task, model, lanes, processing, delayed, now, worker, reaper,
                   promoter, nextId, faults, hist, conf, pool>>

\* DeleteModel: db.Delete of the row. The foreign key of the schema script
\* deletes the model's task rows with it (ON DELETE CASCADE); the one
\* AutoMigrate creates refuses the DELETE while a task row refers to the model.
Delete(c) ==
    /\ client[c].pc = "Delete"
    /\ LET m == client[c].model_id IN
       IF conf.cascade \/ TasksOf(m) = {}
       THEN /\ model' = [model EXCEPT ![m] = NoRow]
            /\ task' = [t \in Tasks |-> IF t \in TasksOf(m) THEN NoRow ELSE task[t]]
       ELSE UNCHANGED <<model, task>>
    /\ client' = Done(c)
    /\ UNCHANGED <<lanes, processing, delayed, now, worker, reaper, promoter,
                   nextId, faults, hist, conf, pool>>

\* Two request goroutines create and cancel tasks and delete models; no
\* worker runs. The foreign key is either of the two the deployment can have.
InitDelete ==
    /\ worker = [w \in {} |-> IdleWorker(1)]
    /\ client = [c \in {"c1", "c2"} |-> IdleClient]
    /\ pool = RunningPool
    /\ \E b \in BOOLEAN :
            conf = [cascade |-> b, sweeps |-> 0, models |-> Models, tasks |-> MaxDTasks,
                    retries |-> 0, log |-> FALSE]
    /\ InitStores
    /\ hist = NoHist

NextDelete ==
    \/ \E c \in DOMAIN client, m \in Models, p \in {0, TaskPriorityLow, TaskPriorityHigh} :
            CreateTask(c, m, p)
    \/ \E c \in DOMAIN client : Create(c)
    \/ \E c \in DOMAIN client : CreateEnqueue(c)
    \/ \E c \in DOMAIN client, id \in Tasks : CancelTask(c, id)
    \/ \E c \in DOMAIN client : CancelUpdate(c)
    \/ \E c \in DOMAIN client, m \in Models : DeleteModel(c, m)
    \/ \E c \in DOMAIN client : Delete(c)

SpecDelete == InitDelete /\ [][NextDelete]_vars

(* --------------------- the reaper run twice in a row ------------------ *)
\* The first CleanupStuckTasks run has not returned yet.
FirstRun == hist.sweeps = 0 \/ (hist.sweeps = 1 /\ reaper.pc # "idle")

\* Two callers of DequeueTask(1) claim entries and ack some; the clock
\* advances until the reaper's first run starts, the callers go on until
\* that run returns, and from then on only the reaper runs.
InitReap ==
    /\ worker = [w \in {"w1", "w2"} |-> IdleWorker(1)]
    /\ client = [c \in {} |-> IdleClient]
    /\ pool = RunningPool
    /\ conf = [cascade |-> TRUE, sweeps |-> MaxSweeps, models |-> Models,
               tasks |-> MaxZTasks, retries |-> 0, log |-> TRUE]
    /\ InitStores
    /\ hist = NoHist

NextReap ==
    \/ /\ hist.sweeps = 0
       /\ \/ \E p \in {TaskPriorityLow, TaskPriorityHigh} : QueueEnqueueTask(1, p)
          \/ Tick
    \/ /\ FirstRun
       /\ \/ \E w \in DOMAIN worker : BRPopEmpty(w)
          \/ \E w \in DOMAIN worker : BRPopItem(w)
          \/ \E w \in DOMAIN worker : moveToProcessing(w)
          \/ \E w \in DOMAIN worker : QueueAck(w)
    \/ CleanupStuckTasks
    \/ CleanupEnqueueDelayed
    \/ CleanupZRem

SpecReap == InitReap /\ [][NextReap]_vars

(* ------------- a worker meets the entry of a deleted task -------------- *)
\* One worker, the sweeps and the clock, while one request goroutine creates
\* a task and another deletes its model (the schema's cascading foreign key).
InitGone ==
    /\ worker = [w \in {"w1"} |-> IdleWorker(1)]
    /\ client = [c \in {"c1", "c2"} |-> IdleClient]
    /\ pool = RunningPool
    /\ conf = [cascade |-> TRUE, sweeps |-> 0, models |-> {1}, tasks |-> MaxGTasks,
               retries |-> 0, log |-> FALSE]
    /\ InitStores
    /\ hist = NoHist

NextGone ==
    \/ CreateTask("c1", 1, TaskPriorityHigh)
    \/ Create("c1")
    \/ CreateEnqueue("c1")
    \/ DeleteModel("c2", 1)
    \/ Delete("c2")
    \/ WorkerStep("w1")
    \/ FailTask("w1")
    \/ CleanupStuckTasks
    \/ CleanupEnqueueDelayed
    \/ CleanupZRem
    \/ ProcessDelayedTasks
    \/ PromoteLPush
    \/ PromoteZRem
    \/ Tick

SpecGone == InitGone /\ [][NextGone]_vars

(* ------------------------------ properties ---------------------------- *)
\* No handler, worker iteration or sweep is between two of its store calls.
Quiescent ==
    /\ \A w \in DOMAIN worker : worker[w].pc = "BRPop"
    /\ \A c \in DOMAIN client : client[c].pc = "idle"
    /\ reaper.pc = "idle"
    /\ promoter.pc = "idle"

Row(t, statuses) == task[t].exists /\ task[t].status \in statuses

Waiting(t) == InLanes(t) + ZCount(delayed, t)
Entries(t) == InLanes(t) + ZCount(processing, t) + ZCount(delayed, t)

\* C1: whenever no operation is in progress and no store call has failed,
\* every pending row has exactly one entry with its task_id in the three lanes
\* and the delayed set together.
C1_PendingHasOneEntry ==
    (Quiescent /\ faults = 0)
        => \A t \in Tasks : Row(t, {"pending"}) => Waiting(t) = 1

\* C2: whenever no API call and no sweep is in progress, every worker is
\* either between two tasks or waiting for its adapter, and no store call has
\* failed, every running row has exactly one entry with its task_id in the
\* processing set.
C2_RunningHasOneEntry ==
    (/\ \A w \in DOMAIN worker : worker[w].pc \in {"BRPop", "executeTaskByType"}
     /\ \A c \in DOMAIN client : client[c].pc = "idle"
     /\ reaper.pc = "idle" /\ promoter.pc = "idle"
     /\ faults = 0)
        => \A t \in Tasks : Row(t, {"running"}) => ZCount(processing, t) = 1

\* C3: whenever no operation is in progress and no store call has failed, a
\* terminal row has no entry in the lanes, the processing set or the delayed
\* set; stated for the rows that CancelTask has cancelled.
C3_TerminalHasNoEntry ==
    (Quiescent /\ faults = 0)
        => \A t \in Tasks :
              (t \in hist.cancelOk /\ Row(t, {"cancelled"}))
                  => Entries(t) = 0

\* C4: once CancelTask has returned without error for a task, no step of a
\* worker changes the row's status away from cancelled.
C4_CancelledStaysCancelled ==
    [][\A t \in Tasks :
          (t \in hist.cancelOk /\ Row(t, {"cancelled"}) /\ worker' # worker)
              => task'[t].status = "cancelled"]_vars

\* C5: a worker that finishes the adapter call of a task whose row has been
\* cancelled in the meantime discards the result: its next steps leave the
\* row's output and the model's request counters as they are.
C5_CancelledResultDiscarded ==
    [][\A w \in DOMAIN worker :
          LET id == worker[w].item.task_id
          IN (/\ worker[w].pc \in {"CompleteTask", "IncrementRequestCount"}
              /\ worker[w].res = "ok"
              /\ worker'[w] # worker[w]
              /\ Row(id, {"cancelled"}))
                => /\ task'[id].output = task[id].output
                   /\ model' = model]_vars

\* C6: when the adapter fails and retry_count < max_retries, the worker's
\* FailTask step increments retry_count and sets the row back to pending.
C6_FailureRetries ==
    [][\A w \in DOMAIN worker :
          LET id == worker[w].item.task_id
          IN (/\ worker[w].pc = "FailTask"
              /\ worker[w].res = "err"
              /\ worker'[w] # worker[w]
              /\ Row(id, {"running"})
              /\ task[id].retry_count < task[id].max_retries)
                => /\ task'[id].status = "pending"
                   /\ task'[id].retry_count = task[id].retry_count + 1]_vars

\* The place of an item in the order of the EnqueueTask calls.
EnqIndex(item) == CHOOSE i \in 1..Len(hist.enq) : hist.enq[i] = item

\* The lanes of higher priority than the one DequeueTask is at.
Above(qi) == {queues[j] : j \in 1..(qi - 1)}

HasModel(q, m) == \E i \in 1..Len(q) : q[i].model_id = m

\* C7: when DequeueTask(m) has popped the entry it returns, no lane of higher
\* priority holds an entry of model m.
C7_PriorityAdmission ==
    \A w \in DOMAIN worker :
        worker[w].pc = "moveToProcessing"
            => \A k \in Above(worker[w].qi) : ~HasModel(lanes[k], worker[w].model)

C9_FifoWithinPriority ==
    \A i, j \in 1..Len(hist.deq) :
        (/\ i < j
         /\ hist.deq[i].priority = hist.deq[j].priority
         /\ hist.deq[i].model_id = hist.deq[j].model_id)
            => EnqIndex(hist.deq[i]) < EnqIndex(hist.deq[j])

\* Three tasks of model 1 at one priority, all returned.
C9_Witness ==
    /\ Len(hist.deq) = 3
    /\ \A i \in 1..3 : hist.deq[i].priority = hist.deq[1].priority

\* C10: between two calls every lane is in the order of the EnqueueTask
\* calls, the oldest entry at the tail, also after DequeueTask has popped an
\* entry of another model and put it back.
C10_SkipKeepsOrder ==
    (\A w \in DOMAIN worker : Idle(w))
        => \A k \in {1, 2, 3} : \A i, j \in 1..Len(lanes[k]) :
              i < j => EnqIndex(lanes[k][i]) > EnqIndex(lanes[k][j])

\* Some lane holds an entry of model m.
AnyLaneHasModel(ls, m) == \E k \in {1, 2, 3} : HasModel(ls[k], m)

\* C11: a DequeueTask(m) call returns nil only when no lane holds an entry of
\* model m: the step that ends the scan of the last lane without an item
\* leaves no such entry behind.
C11_DequeueFindsModel ==
    [][\A w \in DOMAIN worker :
          (/\ worker[w].pc \in {"BRPop", "Requeue"}
           /\ worker[w].qi = 3
           /\ worker'[w].qi = 1)
              => ~AnyLaneHasModel(lanes', worker[w].model)]_vars

\* The task of a stopped worker was dequeued again and its row is completed.
Recovered(w) ==
    /\ worker[w].pc = "stopped"
    /\ Len(hist.deq) >= 2
    /\ Row(worker[w].item.task_id, {"completed"})

RequeueOrStart ==
    \/ reaper' # reaper
    \/ promoter' # promoter
    \/ \E w \in DOMAIN worker :
          /\ worker[w].pc \in {"BRPop", "moveToProcessing", "GetTask", "StartTask"}
          /\ worker'[w] # worker[w]

\* C13: the reaper's move of an entry, the promoter's move back to the lane
\* and the next start of the task all leave every row's retry_count as it is.
C13_ReaperKeepsRetryCount ==
    [][RequeueOrStart =>
          \A t \in Tasks :
              task[t].exists => /\ task'[t].exists
                                /\ task'[t].retry_count = task[t].retry_count]_vars

\* A task with retry_count 1 whose entry the reaper moved has been dequeued
\* and started again.
C13_Witness ==
    \E w \in DOMAIN worker :
        /\ worker[w].pc = "GetModel"
        /\ worker[w].item.task_id \in hist.reaped
        /\ worker[w].item \in DOMAIN processing
        /\ Row(worker[w].item.task_id, {"running"})
        /\ task[worker[w].item.task_id].retry_count = 1
        /\ Entries(worker[w].item.task_id) = 1

\* How many times the adapter has been invoked for a task.
Runs(t) == Cardinality({i \in 1..Len(hist.run) : hist.run[i] = t})

\* C14: while no worker has stopped, in a run where no in-flight entry of a
\* live worker outlives task_timeout and RetryTask is not called, the adapter
\* has been invoked at most once for every task.
C14_AtMostOnce ==
    (\A w \in DOMAIN worker : Live(w)) => \A t \in Tasks : Runs(t) <= 1

\* Two tasks, each executed once, both completed, by two live workers.
C14_Witness ==
    /\ \A w \in DOMAIN worker : Live(w)
    /\ Cardinality(DOMAIN worker) = 2
    /\ \A t \in 1..2 : Runs(t) = 1 /\ Row(t, {"completed"})

\* C15: no step lowers the retry_count of a row.
C15_RetryCountMonotonic ==
    [][\A t \in Tasks :
          (task[t].exists /\ task'[t].exists)
              => task'[t].retry_count >= task[t].retry_count]_vars

\* C16: retry_count <= max_retries in every state, and the step that brings
\* a RetryTask call to its EnqueueTask is the UPDATE that stores the
\* incremented retry_count, with the lanes not yet touched.
C16_RetryCountBounded ==
    /\ [](\A t \in Tasks : task[t].exists => task[t].retry_count <= task[t].max_retries)
    /\ [][\A c \in DOMAIN client :
            (client[c].pc # "RetryEnqueue" /\ client'[c].pc = "RetryEnqueue")
                => /\ task'[client[c].id].retry_count = client[c].retry_count + 1
                   /\ lanes' = lanes]_vars

\* A RetryTask call has stored retry_count = max_retries and is about to enqueue.
C16_Witness ==
    \E c \in DOMAIN client :
        /\ client[c].pc = "RetryEnqueue"
        /\ task[client[c].id].retry_count = task[client[c].id].max_retries
        /\ client[c].retry_count + 1 = task[client[c].id].max_retries

\* C17: of two overlapping RetryTask calls that read the same failed row, at
\* most one gets past its UPDATE to the EnqueueTask.
C17_RetryIdempotent ==
    \A c, d \in DOMAIN client :
        (/\ c # d
         /\ client[c].pc = "RetryEnqueue"
         /\ client[d].pc = "RetryEnqueue"
         /\ client[c].id = client[d].id)
            => client[c].retry_count # client[d].retry_count

\* The workers of model m in the registry of the pool manager.
Registered(m) == Cardinality({s \in pool.workers : worker[s].model = m})

\* C18: while the pool manager waits for its context to end and no worker
\* goroutine is on its way out, every model's current_workers is the number
\* of workers the registry holds for it; also after a restart of the process.
C18_CounterMatchesRegistry ==
    (/\ pool.pc = "running"
     /\ ~pool.cancelled
     /\ \A s \in DOMAIN worker : worker[s].pc \notin {"delete", "DecrementWorkerCount"})
        => \A m \in Models : model[m].current_workers = Registered(m)

\* C19: 0 <= current_workers <= max_workers for every model.
C19_CounterBounded ==
    \A m \in Models :
        model[m].exists => /\ 0 <= model[m].current_workers
                           /\ model[m].current_workers <= model[m].max_workers

\* C20: success_requests <= total_requests for every model row, in every
\* state.
C20_SuccessAtMostTotal ==
    \A m \in Models :
        model[m].exists => model[m].success_requests <= model[m].total_requests

\* All the tasks of model m are completed, failed or cancelled.
AllTerminal(m) == \A t \in TasksOf(m) : task[t].status \in Terminal

\* C21: a model row is deleted only when none of its tasks is pending or
\* running, a task created during the call included, and a DeleteModel call
\* that finds every task of the model terminal deletes the row.
C21_DeleteGuarded ==
    [][\A m \in Models :
         /\ (model[m].exists /\ ~model'[m].exists) => AllTerminal(m)
         /\ \A c \in DOMAIN client :
                (/\ client[c].pc = "Delete" /\ client'[c].pc = "idle"
                 /\ client[c].model_id = m /\ model[m].exists /\ AllTerminal(m))
                => ~model'[m].exists]_vars

\* C22: once a CleanupStuckTasks run has returned, a second run at the same
\* clock value with nothing in between finds no member to requeue and leaves
\* the three lanes, the processing set and the delayed set as they are.
C22_ReapTwiceNoOp ==
    [][~FirstRun => UNCHANGED <<lanes, processing, delayed, reaper>>]_vars

\* The first run has requeued two expired entries and returned.
C22_Witness ==
    /\ hist.sweeps = 1 /\ reaper.pc = "idle"
    /\ Cardinality(hist.reaped) = 2
    /\ Cardinality(DOMAIN delayed) = 2

\* The delayed set holds members and the clock is before the smallest score.
BeforeDue == delayed # EmptyZ /\ \A x \in DOMAIN delayed : now < delayed[x]

\* C23: ProcessDelayedTasks called while the clock is before the smallest
\* score of the delayed set gets an empty reply: it pushes to no lane and
\* removes nothing from the delayed set.
C23_PromoteBeforeDueNoOp ==
    [][(BeforeDue /\ promoter.pc = "idle")
            => (promoter' = promoter /\ (delayed' = delayed \/ reaper' # reaper))]_vars

\* The reaper has put an entry in the delayed set and it is not due yet.
C23_Witness ==
    /\ BeforeDue /\ promoter.pc = "idle" /\ reaper.pc = "idle"
    /\ hist.reaped # {}

\* C24: a completed or cancelled row keeps its status in every step, and a
\* failed row changes only to pending and only by the UPDATE of RetryTask.
C24_TerminalAbsorbing ==
    [][\A t \in Tasks :
          task[t].exists =>
            /\ task[t].status \in {"completed", "cancelled"}
                    => task'[t].status = task[t].status
            /\ task[t].status = "failed"
                    => \/ task'[t].status = "failed"
                       \/ /\ task'[t].status = "pending"
                          /\ \E c \in DOMAIN client :
                                /\ client[c].pc = "RetryUpdate" /\ client[c].id = t
                                /\ client'[c].pc # "RetryUpdate"]_vars

\* The priority a task requested with priority p is to have.
Requested(p) == IF p = 0 THEN TaskPriorityMedium ELSE p

\* C25: the insert of CreateTask writes one pending row of the requested
\* model and priority (medium when none is given) and leaves the lanes; its
\* enqueue adds one entry of the task to the lane of that priority and to no
\* other; and no call for a model id without a row gets as far as the insert,
\* so it writes no row and no entry.
C25_CreateTaskEffect ==
    [][\A c \in DOMAIN client :
         /\ (client[c].pc = "idle" /\ client'[c].pc = "Create")
                => model[client'[c].model_id].exists
         /\ (client[c].pc = "Create" /\ client'[c].pc = "idle")
                => (task' = task /\ lanes' = lanes)
         /\ (client[c].pc = "Create" /\ client'[c].pc = "CreateEnqueue")
                => /\ lanes' = lanes
                   /\ \A t \in Tasks \ {client'[c].id} : task'[t] = task[t]
                   /\ ~task[client'[c].id].exists
                   /\ task'[client'[c].id].exists
                   /\ task'[client'[c].id].status = "pending"
                   /\ task'[client'[c].id].model_id = client[c].model_id
                   /\ task'[client'[c].id].priority = Requested(client[c].priority)
                   /\ client'[c].priority = Requested(client[c].priority)
         /\ (client[c].pc = "CreateEnqueue" /\ client'[c].pc = "idle")
                => /\ task' = task
                   /\ \A k \in {1, 2, 3} :
                        IF k = client[c].priority
                        THEN /\ Len(lanes'[k]) = Len(lanes[k]) + 1
                             /\ LaneCount(lanes'[k], client[c].id)
                                    = LaneCount(lanes[k], client[c].id) + 1
                        ELSE lanes'[k] = lanes[k]]_vars

\* A task requested without priority has its pending row and its one entry,
\* in the medium lane, and a model has been deleted.
C25_Witness ==
    \E t \in Tasks :
        /\ Row(t, {"pending"}) /\ task[t].priority = TaskPriorityMedium
        /\ LaneCount(lanes[2], t) = 1 /\ InLanes(t) = 1
        /\ \E m \in Models : ~model[m].exists
        /\ \A c \in DOMAIN client : client[c].pc = "idle"

\* C26: the three lanes together never hold more than max_queue_size
\* entries.
C26_QueueBounded ==
    Len(lanes[1]) + Len(lanes[2]) + Len(lanes[3]) <= MaxQueueSize

\* The worker's call of the given service method on a row whose status is
\* not the expected one.
CallsOffStatus(w, pc, expected) ==
    /\ worker[w].pc = pc /\ worker'[w] # worker[w]
    /\ task[worker[w].item.task_id].exists
    /\ task[worker[w].item.task_id].status # expected

\* C27: StartTask writes only a pending row, and CompleteTask and FailTask
\* write only a running row; called on a row in another status they leave
\* the row as it is.
C27_TransitionsGated ==
    [][\A w \in DOMAIN worker :
          (\/ CallsOffStatus(w, "StartTask", "pending")
           \/ CallsOffStatus(w, "CompleteTask", "running")
           \/ CallsOffStatus(w, "FailTask", "running"))
          => task'[worker[w].item.task_id] = task[worker[w].item.task_id]]_vars

\* C28: when the row is completed, failed or cancelled at the moment
\* CancelTask's UPDATE is applied, the call writes nothing and ends there:
\* the row is the same after the step and no ack of the processing set follows.
C28_CancelKeepsTerminal ==
    [][\A c \in DOMAIN client :
          (/\ client[c].pc = "CancelUpdate" /\ client'[c].pc # "CancelUpdate"
           /\ Row(client[c].id, Terminal))
          => /\ task'[client[c].id] = task[client[c].id]
             /\ client'[c].pc = "idle"]_vars

\* A step of worker w inside a DequeueTask call.
DequeueStep(w) ==
    worker[w].pc \in {"BRPop", "Requeue", "moveToProcessing"} /\ worker'[w] # worker[w]

\* C29: a DequeueTask call only moves forward: each of its steps handles the
\* entry popped from the current lane, goes on to the next lane, or returns
\* (nil after the third lane, or the claimed entry); an entry leaves a lane
\* only by the one BRPOP the call makes on that lane. A call so makes at most
\* three pops and ends after at most six steps.
C29_DequeueBounded ==
    [][/\ \A w \in DOMAIN worker :
            DequeueStep(w) =>
                \/ /\ worker[w].pc = "BRPop"
                   /\ worker'[w].pc \in {"Requeue", "moveToProcessing"}
                   /\ worker'[w].qi = worker[w].qi
                \/ /\ worker[w].pc \in {"BRPop", "Requeue"} /\ worker[w].qi < 3
                   /\ worker'[w].pc = "BRPop" /\ worker'[w].qi = worker[w].qi + 1
                \/ /\ worker[w].pc \in {"BRPop", "Requeue"} /\ worker[w].qi = 3
                   /\ worker'[w] = IdleWorker(worker[w].model)
                \/ /\ worker[w].pc = "moveToProcessing" /\ worker'[w].pc = "GetTask"
       /\ \A k \in {1, 2, 3} :
            Len(lanes'[k]) < Len(lanes[k]) =>
                /\ Len(lanes'[k]) = Len(lanes[k]) - 1
                /\ \E w \in DOMAIN worker :
                        /\ worker[w].pc = "BRPop" /\ queues[worker[w].qi] = k
                        /\ worker'[w].pc # "BRPop"]_vars

\* The call has met an entry of another model in each of the three lanes:
\* the first two are pushed back and the third is in its hand.
C29_Witness ==
    \E w \in DOMAIN worker :
        /\ worker[w].pc = "Requeue" /\ worker[w].qi = 3
        /\ \A k \in {2, 3} : lanes[k] # <<>> /\ ~HasModel(lanes[k], worker[w].model)
        /\ lanes[1] = <<>>

\* C30: once startDefaultWorkers has returned and the manager waits for its
\* context, the registry holds exactly max_workers workers of every online
\* model, whatever current_workers the rows held when the process started.
C30_StartupStartsMaxWorkers ==
    (pool.pc = "running" /\ ~pool.cancelled)
        => \A m \in Models :
                (model[m].exists /\ model[m].status = "online")
                    => Registered(m) = model[m].max_workers

\* C31: when stopAllWorkers returns, the registry is empty and every model's
\* current_workers is 0: the workers deregistered and decremented while it
\* waited, and the wait did not end by its 30 s bound.
C31_ShutdownDrains ==
    [][(pool.pc # "stopped" /\ pool'.pc = "stopped")
            => /\ pool'.workers = {}
               /\ \A m \in Models : model[m].exists => model'[m].current_workers = 0]_vars

\* C32: a row whose status is completed, failed or cancelled has
\* completed_at set.
C32_TerminalHasCompletedAt ==
    \A t \in Tasks : Row(t, Terminal) => task[t].completed_at

\* The step in which worker w, having dequeued an entry, finds no row of its
\* task and processNextTask returns.
GoneSeen(w) ==
    /\ worker[w].pc = "GetTask" /\ worker'[w] # worker[w]
    /\ ~task[worker[w].item.task_id].exists

\* The reaper requeues a member of the processing set whose task has no row.
GoneRequeued ==
    /\ reaper.pc = "enqueueDelayed" /\ reaper' # reaper
    /\ ~task[Head(reaper.results).task_id].exists

\* C33: a worker that has dequeued an entry whose task row is gone discards
\* it: when processNextTask returns the entry is in none of the lanes, the
\* processing set and the delayed set, and the reaper never requeues an entry
\* of a task without a row.
C33_GoneEntryDiscarded ==
    [][/\ \A w \in DOMAIN worker :
            GoneSeen(w) => /\ worker[w].item \notin DOMAIN processing'
                           /\ worker[w].item \notin DOMAIN delayed'
                           /\ \A k \in {1, 2, 3} :
                                LaneCount(lanes'[k], worker[w].item.task_id) = 0
       /\ ~GoneRequeued]_vars


\* C34: a worker whose StartTask or CompleteTask write has failed removes
\* nothing from the processing set: StartTask's error ends processNextTask at
\* once, and after CompleteTask's error no step of the worker acks.
C34_NoAckAfterStoreError ==
    [][\A w \in DOMAIN worker :
          /\ (worker[w].pc = "StartTask" /\ faults' # faults)
                => (worker'[w] = Return(w) /\ processing' = processing)
          /\ (worker[w].unsaved /\ worker'[w] # worker[w])
                => processing' = processing]_vars

\* The status of an existing model row changes in this step.
StatusChanges(m) ==
    model[m].exists /\ model'[m].exists /\ model'[m].status # model[m].status

\* C35: a step that changes a model's status changes nothing else: the
\* other columns of the row, the other rows, the registry, the workers and
\* the queue structures are as before; and a registered worker waiting on a
\* lane that holds an entry can pop it whatever the status of its model is.
C35_StatusChangeOnly ==
    /\ [](\A w \in DOMAIN worker :
            (worker[w].pc = "BRPop" /\ lanes[queues[worker[w].qi]] # <<>>)
                => ENABLED BRPopItem(w))
    /\ [][\A m \in Models :
            StatusChanges(m)
                => /\ model' = [model EXCEPT ![m].status = model'[m].status]
                   /\ UNCHANGED <<pool, worker, lanes, processing, delayed, task>>]_vars

\* The model is in maintenance, its two workers are registered and counted,
\* and one of them has just popped an entry of the model.
C35_Witness ==
    /\ model[1].status = "maintenance" /\ model[1].current_workers = 2
    /\ pool.workers = DOMAIN worker
    /\ \E w \in DOMAIN worker :
            worker[w].pc = "moveToProcessing" /\ worker[w].item.model_id = 1

\* A worker of the entry's model holds the entry of task t.
Claimed(t) ==
    \E w \in DOMAIN worker :
        /\ worker[w].pc \in {"moveToProcessing", "GetTask"}
        /\ worker[w].item.task_id = t

AckStep(w) == worker[w].pc = "QueueCompleteTask" /\ worker'[w] # worker[w]

\* Worker v is processing a task whose processing entry it added itself.
HoldsClaim(v) ==
    /\ worker[v].pc \in {"GetTask", "StartTask", "GetModel", "executeTaskByType",
                         "FailTask", "CompleteTask", "IncrementRequestCount",
                         "QueueCompleteTask"}
    /\ worker[v].item \in DOMAIN processing
    /\ hist.owner[worker[v].item.task_id] = v

\* C37: the ack of one worker never removes the processing entry that another
\* worker added for the same task and is still working under.
C37_AckOnlyOwnEntry ==
    [][\A w, v \in DOMAIN worker :
            (w # v /\ AckStep(w) /\ HoldsClaim(v))
                => worker[v].item \in DOMAIN processing']_vars

\* The DequeueTask call of w lets go of the entry it popped in this step.
LetsGo(w) ==
    /\ worker[w].pc \in {"Requeue", "moveToProcessing", "PutBack"}
    /\ worker'[w] # worker[w]
    /\ worker'[w].pc # "PutBack"

\* C38: whatever store call fails, an entry popped by DequeueTask is, once the
\* call has dealt with it, back in a lane or in the processing set.
C38_DequeueLosesNothing ==
    [][\A w \in DOMAIN worker :
            LetsGo(w)
                => \/ worker[w].item \in DOMAIN processing'
                   \/ \E k \in 1..3 :
                        LaneCount(lanes'[k], worker[w].item.task_id) > 0]_vars

\* The RetryTask call of c returns the error of its EnqueueTask in this step.
RetryFails(c) ==
    client[c].pc = "RetryEnqueue" /\ client'[c].pc = "idle" /\ lanes' = lanes

\* C39: when RetryTask returns an error because the re-enqueue failed, the
\* row is as the call found it: failed, with the retry_count that was read.
C39_FailedRetryKeepsRow ==
    [][\A c \in DOMAIN client :
            RetryFails(c)
                => /\ task'[client[c].id].status = "failed"
                   /\ task'[client[c].id].retry_count = client[c].retry_count]_vars

\* The CreateTask call of c returns the error of its EnqueueTask in this step.
CreateFails(c) == client[c].pc = "CreateUpdateMessage" /\ client'[c].pc = "idle"

\* C40: when CreateTask returns because EnqueueTask failed, the row it wrote
\* is failed and carries an error message, and no queue structure holds an
\* entry of the task.
C40_FailedCreateMarksRow ==
    [][\A c \in DOMAIN client :
            CreateFails(c)
                => /\ task'[client[c].id].status = "failed"
                   /\ task'[client[c].id].error_message
                   /\ Entries(client[c].id) = 0]_vars

\* A CreateTask has failed on its enqueue and returned: the row is failed with
\* a message, was never started or completed, and has no entry anywhere.
C40_Witness ==
    /\ \A c \in DOMAIN client : client[c].pc = "idle"
    /\ faults = 1
    /\ \E t \in Tasks :
            /\ Row(t, {"failed"}) /\ task[t].error_message
            /\ ~task[t].completed_at /\ ~task[t].started_at
            /\ Entries(t) = 0

=============================================================================
